---- MODULE Spec2Model ----
(***************************************************************************)
(* Model of the wo.wikipedia.org harvesting scripts wowiki_scraper.py      *)
(* ("v1") and wowiki_scraper_v2.py ("v2"): the retry wrapper               *)
(* fetch / fetch_batch, the pagination loop of run, the page filters, the  *)
(* seen set and the buffered output file.                                  *)
(***************************************************************************)
EXTENDS Integers, Sequences, FiniteSets, TLC

(* ------------------------------ bounds --------------------------------- *)
\* pages in one batch response
MaxPages == 2
\* list-batch fetches of one run
MaxFetches == 3
\* largest --limit and --min-chars tried (0 switches either off)
MaxLimit == 2
MaxMinChars == 2
\* writes the BufferedWriter of open(out, "wb") holds before it spills to disk
BufCap == 3

(* -------------------------- program constants -------------------------- *)
\* retries: int = 5
Retries == 5
\* time.sleep(min(wait, 60.0))
MaxWait == 60
\* backoff: float = 1.5 (v1) and 1.7 (v2), in tenths
BackoffTenthsV1 == 15
BackoffTenthsV2 == 17

Versions == {"v1", "v2"}

(* ------------------------------- text ---------------------------------- *)
\* A text is a sequence of characters.
Whitespace == {" ", "\n"}

RECURSIVE Collapse(_, _, _)
\* " ".join(txt.split()): drop leading and trailing whitespace, turn every
\* inner run of whitespace into one space.
Collapse(s, acc, gap) ==
  IF s = <<>> THEN acc
  ELSE IF Head(s) \in Whitespace
       THEN Collapse(Tail(s), acc, acc # <<>>)
       ELSE Collapse(Tail(s),
                     acc \o (IF gap THEN <<" ">> ELSE <<>>) \o <<Head(s)>>,
                     FALSE)

\* (variant: the text is passed through as it came)
normalize_text_raw(txt) == txt

normalize_text(txt) == IF txt = <<>> THEN <<>> ELSE Collapse(txt, <<>>, FALSE)

\* extract_text_from_html on the text nodes left after the boxes are removed
extract_text_from_html(nodes) == Collapse(nodes, <<>>, FALSE)

\* texts the API serves (extract field, revision content, text of the markup)
RawTexts == { <<>>, <<" ">>, <<"a">>, <<"a", " ", " ", "b">> }

(* ---------------------------- API responses ---------------------------- *)
\* a page of a batch; pageid 0 and title "" stand for a missing field
PageIds == {1, 2}
Titles == {"", "A"}
Pages == [pageid : {0} \cup PageIds, title : Titles, extract : RawTexts]
NoPage == [pageid |-> 0, title |-> "", extract |-> <<>>]

\* continuation tokens: non-empty mappings; NoTok is "no continue block"
NoTok == [k \in {} |-> ""]
Tokens == { ("gapcontinue" :> "C") @@ ("continue" :> "x"),
            ("gapcontinue" :> "D") }

\* a JSON body: of a list-batch answer (npages, cont) or of a parse answer
\* (text: the text nodes of the markup, bad: the markup conversion raises)
ListBodies == [none : {FALSE}, npages : 0..MaxPages, cont : {NoTok} \cup Tokens,
               text : {<<>>}, bad : {FALSE}]
ParseBodies == [none : {FALSE}, npages : {0}, cont : {NoTok}, text : RawTexts \ {<<" ">>}, bad : {FALSE}]
               \cup [none : {FALSE}, npages : {0}, cont : {NoTok}, text : {<<>>}, bad : {TRUE}]
\* the JSON document {}
EmptyBody == [none |-> FALSE, npages |-> 0, cont |-> NoTok, text |-> <<>>, bad |-> FALSE]
\* Python's None
NoneBody == [none |-> TRUE, npages |-> 0, cont |-> NoTok, text |-> <<>>, bad |-> FALSE]
Bodies(ctx) == IF ctx = "list" THEN ListBodies ELSE ParseBodies

\* Retry-After header in seconds; 0 stands for no header
Hints == {0, 2, 120}

\* what session.get can produce: a network timeout (an exception), or a
\* response with a status (200, 300, 404, 429, 500, 502 or 503), a Retry-After
\* hint and a body that parses or not
TimeoutResp == [kind |-> "timeout", status |-> 0, ra |-> 0, json |-> FALSE, body |-> NoneBody]
NoResp == [kind |-> "none", status |-> 0, ra |-> 0, json |-> FALSE, body |-> NoneBody]
HttpResps(ctx) ==
  { [kind |-> "http", status |-> 200, ra |-> 0, json |-> TRUE, body |-> b] : b \in Bodies(ctx) }
  \cup { [kind |-> "http", status |-> 300, ra |-> 0, json |-> j, body |-> EmptyBody] : j \in BOOLEAN }
  \cup { [kind |-> "http", status |-> s, ra |-> 0, json |-> FALSE, body |-> NoneBody] : s \in {404, 500} }
  \cup { [kind |-> "http", status |-> s, ra |-> 0, json |-> FALSE, body |-> NoneBody] : s \in {502, 503} }
  \cup { [kind |-> "http", status |-> 429, ra |-> h, json |-> FALSE, body |-> NoneBody] : h \in Hints }
Responses(ctx) == {TimeoutResp} \cup HttpResps(ctx)

Success(status) == status >= 200 /\ status < 300

(* ------------------------- fetch / fetch_batch ------------------------- *)
\* r.status_code in (429, 502, 503)
Retryable(status) == status \in {429, 502, 503}

\* requests.Response.raise_for_status raises for 4xx and 5xx only
RaisesForStatus(status) == status >= 400 /\ status < 600

\* (variant: the loop runs one pass too many)
InBudget_offbyone(a) == a <= Retries + 1

\* for attempt in range(1, retries + 1)
InBudget(a) == a <= Retries

RECURSIVE Pow(_, _)
Pow(b, n) == IF n = 0 THEN 1 ELSE b * Pow(b, n - 1)

\* durations are counted in units of 10^-Retries seconds, which holds
\* backoff ** attempt exactly for every attempt of the budget
Scale == Pow(10, Retries)
BackoffTenths(v) == IF v = "v1" THEN BackoffTenthsV1 ELSE BackoffTenthsV2

Min(x, y) == IF x <= y THEN x ELSE y

\* (variant: no sleep after the answer to the last attempt)
SleepsAfter_notlast(a) == a < Retries

\* time.sleep comes before continue on every pass that gets a retryable status,
\* the last pass of the loop included
SleepsAfter(a) == TRUE

\* wait = float(ra) if ra else (backoff ** attempt); time.sleep(min(wait, 60.0))
SleepTime(v, a, ra) ==
  LET wait == IF ra # 0 THEN ra * Scale
              ELSE Pow(BackoffTenths(v), a) * Pow(10, Retries - a)
  IN  Min(wait, MaxWait * Scale)

(* ------------------------------- run ----------------------------------- *)
\* if not pid (v2) / if not pid or not title (v1)
Malformed(v, p) ==
  IF v = "v1" THEN p.pageid = 0 \/ p.title = "" ELSE p.pageid = 0

\* (variant: the duplicate guard is missing)
AlreadySeen_never(pid, s) == FALSE

\* pid in seen
AlreadySeen(pid, s) == pid \in s

\* args.min_chars and len(extract) < args.min_chars
TooShort(extract, mc) == mc # 0 /\ Len(extract) < mc

\* (variant: the limit test lets one record more through)
LimitHit_late(k, lim) == lim # 0 /\ k > lim

\* args.limit and kept >= args.limit
LimitHit(k, lim) == lim # 0 /\ k >= lim

\* (variant: the test for a missing token is lost)
HasToken_always(c) == TRUE

\* if cont / if not cont: a mapping is true when it is not empty
HasToken(c) == c # NoTok

\* (variant: an empty batch ends the run whatever its token)
StopsOnEmpty_anytoken(body) == body.npages = 0

\* if not pages and "continue" not in data: break
StopsOnEmpty(body) == body.npages = 0 /\ body.cont = NoTok

\* (variant: the identifier is never recorded)
MarkSeen_forgotten(s, pid) == s

\* seen.add(pid)
MarkSeen(s, pid) == s \cup {pid}

\* (variant: the parameters are rebuilt from the token alone)
MergeParams_reset(p, c) == c

\* (variant: the inter-batch sleep is left out)
Pause_skipped(n) == n

\* time.sleep(args.sleep), counted
Pause(n) == n + 1

\* params.update(cont)
MergeParams(p, c) ==
  [k \in DOMAIN p \cup DOMAIN c |-> IF k \in DOMAIN c THEN c[k] ELSE p[k]]

Row(pid, title, text) == [pageid |-> pid, title |-> title, lang |-> "wo", text |-> text]
NoRow == Row(0, "", <<>>)
\* what f.write is given: the serialized row, then the line terminator
RowChunk(r) == [nl |-> FALSE, row |-> r]
NlChunk == [nl |-> TRUE, row |-> NoRow]
\* a record left by an earlier run on the same path
OldRow == Row(1, "A", <<"o">>)

\* (variant: the file is opened to append)
OpenWb_append(file) == file

\* open(out_path, "wb"): the file is created or cut to length 0
OpenWb(file) == [disk |-> <<>>, buf |-> <<>>]

\* f.write(chunk) on a buffered binary file: a full buffer spills to disk first
Write(file, chunk) ==
  IF Len(file.buf) >= BufCap
  THEN [disk |-> file.disk \o file.buf, buf |-> <<chunk>>]
  ELSE [disk |-> file.disk, buf |-> Append(file.buf, chunk)]

\* (variant: the file is dropped without being closed)
Close_noflush(file) == [disk |-> file.disk, buf |-> <<>>]

\* leaving the with block (normally or by an exception) closes the file
Close(file) == [disk |-> file.disk \o file.buf, buf |-> <<>>]

RECURSIVE Lines(_)
\* the file content of a sequence of rows, each followed by its terminator
Lines(rows) ==
  IF rows = <<>> THEN <<>>
  ELSE <<RowChunk(Head(rows)), NlChunk>> \o Lines(Tail(rows))

(* --------------------------- a scripted API ---------------------------- *)
\* A script fixes what the remote API holds: the list batches in order (each
\* its pages and its continue block), the text of the markup a parse request
\* returns, and whether parse requests can fail. A list-batch request gets the
\* batch in turn, or a failing answer before it.

\* the JSON body of the n-th list-batch answer of a script
ScriptListBody(script, n) ==
  IF n \in 1..Len(script.batches)
  THEN [none |-> FALSE, npages |-> Len(script.batches[n].pages),
        cont |-> script.batches[n].cont, text |-> <<>>, bad |-> FALSE]
  ELSE EmptyBody

\* the page at place i of the n-th batch of a script
ScriptPage(script, n, i) ==
  IF n \in 1..Len(script.batches) /\ i \in 1..Len(script.batches[n].pages)
  THEN script.batches[n].pages[i]
  ELSE NoPage

\* the JSON body of the parse answer of a script
ScriptParseBody(script) ==
  [none |-> FALSE, npages |-> 0, cont |-> NoTok, text |-> script.html, bad |-> FALSE]

\* the answers that make a request, the decoding of its body or the conversion
\* of its markup fail
Faults(ctx) ==
  { r \in Responses(ctx) :
      r.kind = "timeout" \/ RaisesForStatus(r.status) \/ ~r.json \/ r.body.bad }

\* what session.get can produce for the n-th list-batch request (ctx "list")
\* or for a parse request (ctx "parse") under a script
ScriptResps(script, ctx, n) ==
  IF ctx = "list"
  THEN Faults(ctx)
       \cup { [kind |-> "http", status |-> 200, ra |-> 0, json |-> TRUE,
               body |-> ScriptListBody(script, n)] }
  ELSE (IF script.parseFaults THEN Faults(ctx) ELSE {})
       \cup { [kind |-> "http", status |-> 200, ra |-> 0, json |-> TRUE,
               body |-> ScriptParseBody(script)] }

\* the texts of the end-to-end scenario, character by character
HelloRaw == <<"H", "e", "l", "l", "o", " ", " ", "w", "o", "r", "l", "d">>
Hello == <<"H", "e", "l", "l", "o", " ", "w", "o", "r", "l", "d">>
Second == <<"S", "e", "c", "o", "n", "d", " ", "p", "a", "g", "e", " ",
            "t", "e", "x", "t", ".">>
Third == <<"T", "h", "i", "r", "d", ".">>

\* batch 1: pages 1 and 2 and the token {gapcontinue: "C"}; batch 2: page 3
\* and no continue block
ScenarioBatches ==
  << [pages |-> << [pageid |-> 1, title |-> "A", extract |-> HelloRaw],
                   [pageid |-> 2, title |-> "B", extract |-> <<>>] >>,
      cont |-> ("gapcontinue" :> "C")],
     [pages |-> << [pageid |-> 3, title |-> "C", extract |-> Third] >>,
      cont |-> NoTok] >>

\* the end-to-end scenario: its batches, and a fallback that succeeds with
\* markup whose text is "Second page text."
Scenario ==
  [mode |-> "script", batches |-> ScenarioBatches,
   html |-> Second \o <<"\n">>, parseFaults |-> FALSE]

\* scripts of two full batches, the first with a token, over pages that repeat
\* identifiers and have empty extracts; parse requests can fail
ScriptPages ==
  { [pageid |-> 1, title |-> "A", extract |-> <<"a">>],
    [pageid |-> 2, title |-> "A", extract |-> <<>>],
    [pageid |-> 2, title |-> "A", extract |-> <<"a", " ", " ", "b">>] }
Scripts ==
  { [mode |-> "script",
     batches |-> << [pages |-> b1, cont |-> ("gapcontinue" :> "D")],
                    [pages |-> b2, cont |-> NoTok] >>,
     html |-> <<"a">>, parseFaults |-> TRUE] :
    b1 \in [1..MaxPages -> ScriptPages], b2 \in [1..MaxPages -> ScriptPages] }

\* no script: the API is free in every answer
AnyApi == [mode |-> "any", batches |-> <<>>, html |-> <<>>, parseFaults |-> TRUE]

(* ------------------------------- state --------------------------------- *)
\* The run log is kept beside the program's variables:
\*   nFetch    list-batch calls of fetch made by run
\*   served    for each list-batch answer taken by run, whether it carried a
\*             continuation token
\*   emitted   the rows handed to f.write, in order
\*   filtered  identifiers dropped by the length filter before being emitted
\*   repeated  the API has returned an identifier that was already emitted
\*   nPause    inter-batch sleeps
\* and the log of the fetch call in progress:
\*   nReq, nRetry, nSleep   requests sent, retryable answers, sleeps
\*   last, lastSleep        the last answer and the sleep that followed it
\* api tells what the remote API holds: AnyApi, or a script

VARIABLES
  api,                           \* what the remote API serves
  ver, limit, min_chars,         \* which script runs, args.limit, args.min_chars
  pc,                            \* position of run
  cont, params,                  \* cont, and the continuation keys held by params
  data, idx, brk, cur,           \* batch in hand, loop index, break taken, page in hand
  seen, kept,                    \* seen / seen_ids, kept
  file,                          \* the output file: what is on disk, what is buffered
  fpc, fctx, attempt, last,      \* fetch: position, caller, attempt, last response
  fres, ferr,                    \* fetch: value returned, exception raised
  nReq, nRetry, nSleep, lastSleep, \* fetch call log: requests, retryable answers, sleeps
  nFetch, served, emitted, filtered, repeated, nPause  \* run log

runVars == <<api, ver, limit, min_chars, pc, cont, params, data, idx, brk, cur, seen, kept, file>>
fetchVars == <<fpc, fctx, attempt, last, fres, ferr, nReq, nRetry, nSleep, lastSleep>>
logVars == <<nFetch, served, emitted, filtered, repeated, nPause>>
vars == <<runVars, fetchVars, logVars>>

\* the state when run is entered, whatever the arguments
Start ==
  /\ pc = "start"
  /\ cont = NoTok /\ params = NoTok
  /\ data = EmptyBody /\ idx = 0 /\ brk = FALSE /\ cur = NoPage
  /\ seen = {} /\ kept = 0
  /\ file = [disk |-> Lines(<<OldRow>>), buf |-> <<>>]
  /\ fpc = "idle" /\ fctx = "list" /\ attempt = 0 /\ last = NoResp
  /\ fres = NoneBody /\ ferr = "none"
  /\ nReq = 0 /\ nRetry = 0 /\ nSleep = 0 /\ lastSleep = 0
  /\ nFetch = 0 /\ served = <<>> /\ emitted = <<>> /\ filtered = {} /\ repeated = FALSE /\ nPause = 0

\* either script, with or without --limit and --min-chars, on a path that holds
\* the output of an earlier run, against an API free in its answers
Init ==
  /\ api = AnyApi
  /\ ver \in Versions
  /\ limit \in {0, MaxLimit}
  /\ min_chars \in {0, MaxMinChars}
  /\ Start

\* the same against a scripted API (the end-to-end scenario is one of the
\* scripts), --min-chars 0 or 1
InitScript ==
  /\ api \in {Scenario} \cup Scripts
  /\ ver \in Versions
  /\ limit \in {0, MaxLimit}
  /\ min_chars \in {0, 1}
  /\ Start

\* the answers session.get can produce for the request in hand
Answers ==
  IF api.mode = "script" THEN ScriptResps(api, fctx, nFetch) ELSE Responses(fctx)

\* (variant: the pages of a batch are walked from the last to the first)
PagesServed_reversed ==
  IF api.mode = "script" THEN {ScriptPage(api, nFetch, data.npages + 1 - idx)} ELSE Pages

\* the page the batch in hand holds at the place the loop has reached
PagesServed ==
  IF api.mode = "script" THEN {ScriptPage(api, nFetch, idx)} ELSE Pages

\* the fetch variables of a call that starts for caller ctx
FetchStarts(ctx) ==
  /\ fpc' = "get" /\ fctx' = ctx /\ attempt' = 1 /\ last' = NoResp
  /\ fres' = NoneBody /\ ferr' = "none"
  /\ nReq' = 0 /\ nRetry' = 0 /\ nSleep' = 0 /\ lastSleep' = 0

\* the fetch variables once the caller has taken the outcome
FetchIdle ==
  /\ fpc' = "idle" /\ fctx' = "list" /\ attempt' = 0 /\ last' = NoResp
  /\ fres' = NoneBody /\ ferr' = "none"
  /\ nReq' = 0 /\ nRetry' = 0 /\ nSleep' = 0 /\ lastSleep' = 0

\* with open(out_path, "wb") as f: cont = None
Open ==
  /\ pc = "start"
  /\ file' = OpenWb(file)
  /\ cont' = NoTok
  /\ pc' = "top"
  /\ UNCHANGED <<api, ver, limit, min_chars, params, data, idx, brk, cur, seen, kept>>
  /\ UNCHANGED fetchVars
  /\ UNCHANGED logVars

\* while True: if cont: params.update(cont); data = fetch(session, lang, params)
CallFetch ==
  /\ pc = "top"
  /\ nFetch < MaxFetches
  /\ params' = IF HasToken(cont) THEN MergeParams(params, cont) ELSE params
  /\ pc' = "fetch"
  /\ FetchStarts("list")
  /\ nFetch' = nFetch + 1
  /\ UNCHANGED <<api, ver, limit, min_chars, cont, data, idx, brk, cur, seen, kept, file>>
  /\ UNCHANGED <<served, emitted, filtered, repeated, nPause>>

\* one pass of the for loop of fetch: the request and what follows its answer
\* (lastSleep is the sleep that followed the answer, 0 when none did)
FetchAttempt ==
  /\ fpc = "get"
  /\ InBudget(attempt)
  /\ \E r \in Answers :
       /\ last' = r
       /\ nReq' = nReq + 1
       /\ IF r.kind = "timeout"
          THEN \* session.get raises requests.Timeout, nothing catches it
               /\ fpc' = "raised" /\ ferr' = "Timeout" /\ lastSleep' = 0
               /\ UNCHANGED <<attempt, fres, nRetry, nSleep>>
          ELSE IF Retryable(r.status)
          THEN /\ nRetry' = nRetry + 1
               /\ nSleep' = IF SleepsAfter(attempt) THEN nSleep + 1 ELSE nSleep
               /\ lastSleep' = IF SleepsAfter(attempt)
                               THEN SleepTime(ver, attempt, r.ra)
                               ELSE 0
               /\ attempt' = attempt + 1
               /\ UNCHANGED <<fpc, fres, ferr>>
          ELSE IF RaisesForStatus(r.status)
          THEN /\ fpc' = "raised" /\ ferr' = "HTTPError" /\ lastSleep' = 0
               /\ UNCHANGED <<attempt, fres, nRetry, nSleep>>
          ELSE IF ~r.json
          THEN \* r.json() raises a ValueError
               /\ fpc' = "raised" /\ ferr' = "ValueError" /\ lastSleep' = 0
               /\ UNCHANGED <<attempt, fres, nRetry, nSleep>>
          ELSE /\ fpc' = "returned" /\ fres' = r.body /\ lastSleep' = 0
               /\ UNCHANGED <<attempt, ferr, nRetry, nSleep>>
  /\ UNCHANGED fctx
  /\ UNCHANGED runVars
  /\ UNCHANGED logVars

\* the loop is over: r.raise_for_status(), then the end of the function
FetchExhausted ==
  /\ fpc = "get"
  /\ ~InBudget(attempt)
  /\ IF RaisesForStatus(last.status)
     THEN fpc' = "raised" /\ ferr' = "HTTPError" /\ UNCHANGED fres
     ELSE fpc' = "returned" /\ fres' = NoneBody /\ UNCHANGED ferr
  /\ UNCHANGED <<fctx, attempt, last, nReq, nRetry, nSleep, lastSleep>>
  /\ UNCHANGED runVars
  /\ UNCHANGED logVars

\* the list-batch fetch is over: its exception ends run (the with block closes
\* the file), its value becomes data; an empty batch without continue block
\* ends the loop
BatchReturned ==
  /\ pc = "fetch"
  /\ fpc \in {"returned", "raised"}
  /\ IF fpc = "raised" \/ fres.none
     THEN \* data.get on None raises an AttributeError
          /\ pc' = "failed"
          /\ file' = Close(file)
          /\ UNCHANGED <<data, idx, brk, served>>
          /\ UNCHANGED fetchVars
     ELSE /\ served' = Append(served, fres.cont # NoTok)
          /\ FetchIdle
          /\ data' = fres
          /\ IF StopsOnEmpty(fres)
             THEN /\ pc' = "done"
                  /\ file' = Close(file)
                  /\ UNCHANGED <<idx, brk>>
             ELSE /\ pc' = "loop"
                  /\ idx' = 1 /\ brk' = FALSE
                  /\ UNCHANGED file
  /\ UNCHANGED <<api, ver, limit, min_chars, cont, params, cur, seen, kept>>
  /\ UNCHANGED <<nFetch, emitted, filtered, repeated, nPause>>

EmittedIds == { emitted[i].pageid : i \in 1..Len(emitted) }

\* the log of identifiers the length filter dropped before they were emitted
Dropped(pid) == IF pid \in EmittedIds THEN filtered ELSE filtered \cup {pid}

\* continue: on to the next page of the batch
Skip ==
  /\ idx' = idx + 1
  /\ UNCHANGED <<brk, kept, file, emitted>>

\* the length filter, the two writes of the row, kept += 1 and the limit test
Finish(pid, title, extract) ==
  IF TooShort(extract, min_chars)
  THEN /\ Skip
       /\ filtered' = Dropped(pid)
  ELSE /\ file' = Write(Write(file, RowChunk(Row(pid, title, extract))), NlChunk)
       /\ emitted' = Append(emitted, Row(pid, title, extract))
       /\ kept' = kept + 1
       /\ brk' = LimitHit(kept + 1, limit)
       /\ idx' = idx + 1
       /\ UNCHANGED filtered

\* one pass of "for p in pages" in wowiki_scraper.py
RunPageV1(p) ==
  LET extract == normalize_text(p.extract) IN
  /\ IF Malformed(ver, p)
     THEN Skip /\ UNCHANGED <<seen, filtered>>
     ELSE IF TooShort(extract, min_chars)
     THEN Skip /\ filtered' = Dropped(p.pageid) /\ UNCHANGED seen
     ELSE IF AlreadySeen(p.pageid, seen)
     THEN Skip /\ UNCHANGED <<seen, filtered>>
     ELSE /\ seen' = MarkSeen(seen, p.pageid)
          /\ Finish(p.pageid, p.title, extract)
  /\ UNCHANGED <<pc, cur>>
  /\ UNCHANGED fetchVars

\* one pass of "for p in pages" in wowiki_scraper_v2.py, up to the fallback
\* fetch when the extract is empty
RunPageV2(p) ==
  LET extract == normalize_text(p.extract) IN
  IF Malformed(ver, p) \/ AlreadySeen(p.pageid, seen)
  THEN /\ Skip
       /\ UNCHANGED <<seen, filtered, pc, cur>>
       /\ UNCHANGED fetchVars
  ELSE /\ seen' = MarkSeen(seen, p.pageid)
       /\ IF extract = <<>>
          THEN /\ pc' = "fallback"
               /\ cur' = [p EXCEPT !.extract = extract]
               /\ FetchStarts("parse")
               /\ UNCHANGED <<idx, brk, kept, file, emitted, filtered>>
          ELSE /\ Finish(p.pageid, p.title, extract)
               /\ UNCHANGED <<pc, cur>>
               /\ UNCHANGED fetchVars

RunPage ==
  /\ pc = "loop"
  /\ ~brk
  /\ idx <= data.npages
  /\ \E p \in PagesServed :
       /\ IF ver = "v1" THEN RunPageV1(p) ELSE RunPageV2(p)
       /\ repeated' = (repeated \/ p.pageid \in EmittedIds)
  /\ UNCHANGED <<api, ver, limit, min_chars, cont, params, data>>
  /\ UNCHANGED <<nFetch, served, nPause>>

\* the exception the try block of the fallback ends with ("none": it ends
\* normally): the one fetch raised, parsed.get on None, or the markup conversion
FallbackError ==
  IF fpc = "raised" THEN ferr
  ELSE IF fres.none THEN "AttributeError"
  ELSE IF fres.bad THEN "MarkupError"
  ELSE "none"

\* (variant: only HTTP errors are caught)
Caught_httponly(err) == err = "HTTPError"

\* except Exception as e: every error of the try block is an Exception
Caught(err) == TRUE

\* the fallback fetch is over: markup to text, any exception gives "", then
\* the rest of the pass
FallbackReturned ==
  /\ pc = "fallback"
  /\ fpc \in {"returned", "raised"}
  /\ IF FallbackError # "none" /\ ~Caught(FallbackError)
     THEN \* the exception leaves run
          /\ pc' = "failed"
          /\ file' = Close(file)
          /\ UNCHANGED <<cur, idx, brk, kept, emitted, filtered>>
          /\ UNCHANGED fetchVars
     ELSE /\ LET extract == IF FallbackError = "none"
                            THEN extract_text_from_html(fres.text)
                            ELSE <<>>
             IN  Finish(cur.pageid, cur.title, extract)
          /\ pc' = "loop"
          /\ cur' = NoPage
          /\ FetchIdle
  /\ UNCHANGED <<api, ver, limit, min_chars, cont, params, data, seen>>
  /\ UNCHANGED <<nFetch, served, repeated, nPause>>

\* after the for loop: the limit test, cont = data.get("continue"), the
\* inter-batch sleep (data is not read again before the next answer replaces it)
EndBatch ==
  /\ pc = "loop"
  /\ brk \/ idx > data.npages
  /\ IF LimitHit(kept, limit)
     THEN /\ pc' = "done"
          /\ file' = Close(file)
          /\ UNCHANGED <<cont, nPause>>
     ELSE /\ cont' = data.cont
          /\ IF ~HasToken(data.cont)
             THEN pc' = "done" /\ file' = Close(file) /\ UNCHANGED nPause
             ELSE pc' = "top" /\ nPause' = Pause(nPause) /\ UNCHANGED file
  /\ data' = EmptyBody /\ idx' = 0 /\ brk' = FALSE
  /\ UNCHANGED <<api, ver, limit, min_chars, params, cur, seen, kept>>
  /\ UNCHANGED fetchVars
  /\ UNCHANGED <<nFetch, served, emitted, filtered, repeated>>

\* the process is killed while the file is open: its memory, the buffer of the
\* file included, is gone; what reached the disk stays
Kill ==
  /\ pc \in {"top", "fetch", "loop", "fallback"}
  /\ pc' = "crashed"
  /\ file' = [disk |-> file.disk, buf |-> <<>>]
  /\ cont' = NoTok /\ params' = NoTok
  /\ data' = EmptyBody /\ idx' = 0 /\ brk' = FALSE /\ cur' = NoPage
  /\ seen' = {} /\ kept' = 0
  /\ FetchIdle
  /\ UNCHANGED <<api, ver, limit, min_chars>>
  /\ UNCHANGED logVars

\* main: an exception out of run is printed and the process exits with
\* sys.exit(1); otherwise main returns and the exit status is 0
ExitStatus == IF pc = "failed" THEN 1 ELSE 0

Next ==
  \/ Open
  \/ CallFetch
  \/ FetchAttempt
  \/ FetchExhausted
  \/ BatchReturned
  \/ RunPage
  \/ FallbackReturned
  \/ EndBatch
  \/ Kill

Spec == Init /\ [][Next]_vars

SpecScript == InitScript /\ [][Next]_vars

(* ------------------------------ properties ----------------------------- *)
BatchBoundary == pc \in {"top", "fetch", "done"}
LastServed == served[Len(served)]

\* C1: no page identifier is written to the output more than once in a run,
\* however many batches repeat it.
C1_NoDuplicateOutput ==
  \A i, j \in 1..Len(emitted) : i # j => emitted[i].pageid # emitted[j].pageid

\* the API has repeated an emitted identifier in a later batch, and the run has
\* gone past it
C1_Witness ==
  /\ repeated
  /\ nFetch >= 2
  /\ pc = "done"
  /\ Len(emitted) >= 1

\* C2 (as claimed): once the process is killed, the disk holds exactly the
\* records emitted so far, each complete.
C2_DurablePerRecord == pc = "crashed" => file.disk = Lines(emitted)

\* C3: a success that follows K retryable answers is the (K+1)-th request of the
\* call and its body is what fetch returns; no call sends more than Retries
\* requests.
C3_BackoffBound ==
  /\ nReq <= Retries
  /\ (last.kind = "http" /\ Success(last.status))
       => /\ fpc = "returned"
          /\ nRetry < Retries
          /\ nReq = nRetry + 1
          /\ fres = last.body

\* two retryable answers, then a success that fetch returns
C3_Witness ==
  /\ fpc = "returned"
  /\ Success(last.status)
  /\ nRetry = 2
  /\ nReq = 3

\* C4 (as claimed): a network timeout with budget left is followed by a sleep
\* and the next attempt, not by an exception reaching the caller.
C4_TimeoutRetried ==
  (last.kind = "timeout" /\ nReq < Retries) => (fpc = "get" /\ nSleep = nReq)

\* C5 (as claimed): Retries retryable answers in a row make fetch raise, and
\* fetch returns only when some attempt got a success answer.
C5_ExhaustionRaises ==
  /\ (nRetry = Retries /\ fpc # "get") => fpc = "raised"
  /\ fpc = "returned" => (last.kind = "http" /\ Success(last.status))

\* the half of C5 the code keeps: Retries retryable answers in a row make fetch
\* raise an HTTPError, and fetch never returns None
C5_ExhaustionRaisesOnly ==
  /\ (nRetry = Retries /\ fpc # "get") => (fpc = "raised" /\ ferr = "HTTPError")
  /\ fpc = "returned" => ~fres.none

\* C6 (as claimed): an answer that is neither 2xx nor 429/502/503 makes fetch
\* raise at once: no sleep, no body returned.
C6_FatalRaises ==
  (last.kind = "http" /\ ~Success(last.status) /\ ~Retryable(last.status))
    => (fpc = "raised" /\ lastSleep = 0 /\ fres = NoneBody)

\* the part of C6 the code keeps: every 4xx or 5xx answer other than 429/502/503
\* makes fetch raise at once
C6_ErrorStatusRaises ==
  (last.kind = "http" /\ RaisesForStatus(last.status) /\ ~Retryable(last.status))
    => (fpc = "raised" /\ ferr = "HTTPError" /\ lastSleep = 0 /\ fres = NoneBody)

\* C7: with the limit not reached, run makes exactly as many list-batch fetches
\* as it takes to get the first answer without continuation token, then is
\* done: every answer before the last one taken carried a token, nothing is
\* fetched after an answer without token, and run is done only on such an answer.
C7_FetchCount ==
  /\ \A i \in 1..(Len(served) - 1) : served[i]
  /\ (served # <<>> /\ ~LastServed)
       => (nFetch = Len(served) /\ pc \in {"loop", "fallback", "done", "crashed"})
  /\ (pc = "done" /\ ~LimitHit(kept, limit))
       => (served # <<>> /\ ~LastServed /\ nFetch = Len(served))

\* two answers with a token, a third without: done after three fetches
C7_Witness ==
  /\ pc = "done"
  /\ ~LimitHit(kept, limit)
  /\ served = <<TRUE, TRUE, FALSE>>
  /\ nFetch = 3

\* C8: an answer with no pages but a continuation token does not end the run:
\* the loop goes on to the inter-batch sleep and the next list-batch fetch; run
\* ends for lack of pages only on an answer without token.
C8_EmptyBatchContinues ==
  [][ /\ (pc = "fetch" /\ fpc = "returned" /\ fres.npages = 0 /\ fres.cont # NoTok
            /\ pc' # "crashed") => pc' = "loop"
      /\ (pc = "loop" /\ data.npages = 0 /\ data.cont # NoTok /\ pc' # "crashed")
            => (pc' = "top" /\ cont' # NoTok /\ nPause' = nPause + 1)
      /\ (pc = "top" /\ pc' \notin {"top", "crashed"})
            => (pc' = "fetch" /\ fpc' = "get" /\ nFetch' = nFetch + 1)
      /\ (pc # "done" /\ pc' = "done" /\ ~LimitHit(kept', limit))
            => ~served'[Len(served')]
    ]_vars

\* an answer with no pages but a token has been taken and the run has entered
\* the (empty) page loop instead of stopping
C8_Witness ==
  /\ pc = "loop"
  /\ data.npages = 0
  /\ data.cont # NoTok
  /\ nFetch = Len(served)
  /\ LastServed

\* C9 (as claimed): a page without identifier or without title is never written
\* and never counted.
C9_MalformedSkipped ==
  /\ \A i \in 1..Len(emitted) : emitted[i].pageid # 0 /\ emitted[i].title # ""
  /\ pc # "crashed" => kept = Len(emitted)

\* the part of C9 the code keeps: a page without identifier is never written,
\* and wowiki_scraper.py never writes a page without title
C9_MalformedSkippedV1 ==
  \A i \in 1..Len(emitted) :
    emitted[i].pageid # 0 /\ (ver = "v1" => emitted[i].title # "")

\* C10 (as claimed): at every batch boundary the seen set is exactly the set of
\* identifiers emitted.
C10_SeenIsEmitted == BatchBoundary => seen = EmittedIds

\* C10 (as amended): at every batch boundary, in wowiki_scraper.py the seen set
\* is exactly the set of identifiers emitted (a filtered identifier is not in
\* it and is evaluated again when it comes back); in wowiki_scraper_v2.py it is
\* the set of identifiers emitted or filtered, and a filtered identifier is
\* never emitted later.
C10_SeenByVersion ==
  BatchBoundary =>
    /\ ver = "v1" => seen = EmittedIds
    /\ ver = "v2" => (seen = EmittedIds \cup filtered /\ EmittedIds \cap filtered = {})

\* wowiki_scraper.py has emitted an identifier that the filter had dropped
\* before, and the seen set is the emitted set
C10_Witness ==
  /\ ver = "v1"
  /\ BatchBoundary
  /\ filtered \cap EmittedIds # {}
  /\ seen = EmittedIds

\* C11: with a limit L > 0, kept never exceeds L (nor does the number of rows
\* written), and once kept has reached L nothing more is written and no request
\* is sent, neither for a batch nor for a fallback: the only step left to run
\* is the one that ends it, the rest of the batch in hand being dropped.
C11_LimitRespected ==
  /\ [](limit # 0 => (kept <= limit /\ Len(emitted) <= limit))
  /\ []((limit # 0 /\ kept >= limit) => (fpc = "idle" /\ pc \in {"loop", "done"}))
  /\ [][ (limit # 0 /\ kept >= limit)
           => /\ emitted' = emitted
              /\ nFetch' = nFetch
              /\ nReq' = nReq
              /\ fpc' = "idle"
              /\ pc' \in {"done", "crashed"}
       ]_vars

\* the limit has been reached in the middle of a batch that has pages left and
\* a continuation token, and the loop has been left
C11_Witness ==
  /\ limit # 0
  /\ kept = limit
  /\ pc = "loop"
  /\ brk
  /\ idx <= data.npages
  /\ data.cont # NoTok

RECURSIVE IsSubSeq(_, _)
\* s is t with some elements left out
IsSubSeq(s, t) ==
  IF s = <<>> THEN TRUE
  ELSE IF t = <<>> THEN FALSE
  ELSE IF Head(s) = Head(t) THEN IsSubSeq(Tail(s), Tail(t))
  ELSE IsSubSeq(s, Tail(t))

\* identifier and title of each element of a sequence of pages or of rows
Keys(seq) == [i \in 1..Len(seq) |-> <<seq[i].pageid, seq[i].title>>]

RECURSIVE Returned(_, _)
\* the pages of the first n batches of a script, in the order the API returns them
Returned(script, n) ==
  IF n = 0 THEN <<>> ELSE Returned(script, n - 1) \o script.batches[n].pages

\* C12: the rows written, in the order of the file, are the pages of the
\* batches answered so far, in the order the API returned them (batch by batch,
\* page by page), with some pages left out.
C12_ApiOrderKept ==
  /\ IsSubSeq(Keys(emitted), Keys(Returned(api, Len(served))))
  /\ pc \notin {"start", "crashed"} => file.disk \o file.buf = Lines(emitted)

\* two rows written from two batches that returned four pages: page 2 of the
\* first batch, then page 1 of the second
C12_Witness ==
  /\ api \in Scripts
  /\ pc = "done"
  /\ Len(served) = 2
  /\ Len(Returned(api, 2)) > 2
  /\ Keys(emitted) = << <<2, "A">>, <<1, "A">> >>

\* C13: in wowiki_scraper_v2.py a fallback that fails (fetch raises after the
\* retries, on an error status, on a timeout or on a body that is not JSON, or
\* the markup conversion raises) gives the record the text "" and run goes on:
\* the length filter is applied to "", the loop moves to the next page, and run
\* never fails on a fallback.
C13_FallbackDegrades ==
  /\ [](pc = "failed" => fctx = "list")
  /\ [][ (pc = "fallback" /\ fpc \in {"returned", "raised"} /\ FallbackError # "none"
            /\ pc' # "crashed")
           => /\ pc' = "loop"
              /\ idx' = idx + 1
              /\ seen' = seen
              /\ IF min_chars # 0
                 THEN emitted' = emitted /\ kept' = kept
                 ELSE /\ emitted' = Append(emitted, Row(cur.pageid, cur.title, <<>>))
                      /\ kept' = kept + 1
       ]_vars

\* the fallback of page 2 has failed in the first batch (its row has the text
\* "", which the markup of the script never gives), and run has written page 1
\* of the second batch after it
C13_Witness ==
  /\ api \in Scripts
  /\ ver = "v2"
  /\ pc = "done"
  /\ Len(served) = 2
  /\ Len(emitted) = 2
  /\ emitted[1] = Row(2, "A", <<>>)
  /\ emitted[2].pageid = 1
  /\ api.batches[1].pages[1].pageid = 2
  /\ api.batches[1].pages[2].pageid = 2

\* C14: when a list-batch fetch raises, run ends at once (no request follows,
\* nothing more is written), main exits with a status other than 0, and the
\* file on disk holds every row written before, complete and in order; nothing
\* happens after that.
C14_FatalStops ==
  /\ [](pc = "failed"
          => /\ ExitStatus # 0
             /\ fctx = "list"
             /\ file = [disk |-> Lines(emitted), buf |-> <<>>])
  /\ [][ /\ pc # "failed"
         /\ (pc = "fetch" /\ fpc = "raised" /\ pc' # "crashed")
              => /\ pc' = "failed"
                 /\ emitted' = emitted
                 /\ nFetch' = nFetch
                 /\ nReq' = nReq
       ]_vars

\* the second list-batch fetch has raised an HTTPError after one row was
\* written (the row was still in the buffer of the file), and run has failed
C14_Witness ==
  /\ pc = "failed"
  /\ ferr = "HTTPError"
  /\ nFetch = 2
  /\ Len(emitted) = 1
  /\ file.disk = Lines(emitted)

\* C15: the end-to-end scenario run by wowiki_scraper_v2.py with --min-chars 1
\* and no limit: when run is done the output is exactly the three rows of
\* pages 1, 2, 3 in that order, with the texts "Hello world", "Second page
\* text." and "Third.", and kept is 3.
C15_Scenario ==
  (api = Scenario /\ ver = "v2" /\ min_chars = 1 /\ limit = 0 /\ pc = "done")
    => /\ emitted = << Row(1, "A", Hello), Row(2, "B", Second), Row(3, "C", Third) >>
       /\ file = [disk |-> Lines(emitted), buf |-> <<>>]
       /\ kept = 3

\* the scenario has run to its end: two list-batch fetches, one pause
C15_Witness ==
  /\ api = Scenario
  /\ ver = "v2"
  /\ min_chars = 1
  /\ limit = 0
  /\ pc = "done"
  /\ nFetch = 2
  /\ nPause = 1
  /\ Len(emitted) = 3

\* base ** a for the script that runs, in the unit of the durations
Backoff(a) == Pow(BackoffTenths(ver), a) * Pow(10, Retries - a)

\* C16 (as claimed): the sleep that follows a retryable answer on attempt a is
\* exactly the Retry-After hint when the answer carries one, and otherwise
\* base ** a capped at MaxWait.
C16_SleepIsHint ==
  (last.kind = "http" /\ Retryable(last.status))
    => lastSleep = IF last.ra # 0
                   THEN last.ra * Scale
                   ELSE Min(Backoff(attempt - 1), MaxWait * Scale)

\* what the code keeps of C16: the cap applies to the hint as well
C16_SleepIsCappedHint ==
  (last.kind = "http" /\ Retryable(last.status))
    => lastSleep = Min(IF last.ra # 0 THEN last.ra * Scale ELSE Backoff(attempt - 1),
                       MaxWait * Scale)

\* C17: the continuation parameters of a list-batch request are those of the
\* request before, overridden by the key-value pairs of the token that answer
\* brought; nothing else changes them, so a key of an earlier token stays until
\* a later token carries the same key.
C17_ParamsMerged ==
  [][ /\ (pc = "top" /\ pc' = "fetch")
           => /\ DOMAIN params' = DOMAIN params \cup DOMAIN cont
              /\ \A k \in DOMAIN cont : params'[k] = cont[k]
              /\ \A k \in DOMAIN params \ DOMAIN cont : params'[k] = params[k]
      /\ (pc # "top" /\ pc' # "crashed") => params' = params
      /\ (pc = "fetch" /\ pc' = "loop") => data'.cont = fres.cont
      /\ (pc = "loop" /\ pc' = "top") => cont' = data.cont
      /\ (pc \in {"top", "fetch", "fallback"} /\ pc' # "crashed") => cont' = cont
    ]_vars

\* the third request: gapcontinue comes from the second token, which has no
\* key "continue"; "continue" is still the one of the first token
C17_Witness ==
  /\ pc = "fetch"
  /\ nFetch = 3
  /\ cont = ("gapcontinue" :> "D")
  /\ params = ("gapcontinue" :> "D") @@ ("continue" :> "x")

\* C18: run sleeps once between two consecutive list-batch fetches and nowhere
\* else: none before the first fetch, none after the last; with n fetches made
\* there have been n - 1 pauses, and n when the next fetch is about to start.
C18_PausesBetweenFetches ==
  /\ pc = "start" => (nFetch = 0 /\ nPause = 0)
  /\ pc = "top" => nPause = nFetch
  /\ pc \in {"fetch", "loop", "fallback", "done", "failed"} => nPause = nFetch - 1
  /\ pc = "crashed" => (nPause = nFetch \/ nPause = nFetch - 1)

\* three list-batch fetches, two pauses, run done
C18_Witness ==
  /\ pc = "done"
  /\ nFetch = 3
  /\ nPause = 2

\* C19: fetch sleeps after every retryable answer, the one to the last attempt
\* included: when Retries retryable answers have used up the budget, fetch has
\* slept Retries times before it raises.
C19_SleepsEveryRetry ==
  /\ nSleep = nRetry
  /\ (last.kind = "http" /\ Retryable(last.status)) => lastSleep > 0
  /\ (fpc = "raised" /\ nRetry = Retries)
       => (nSleep = Retries /\ nReq = Retries /\ ferr = "HTTPError")

\* the budget is used up by retryable answers and fetch has raised
C19_Witness ==
  /\ fpc = "raised"
  /\ nRetry = Retries
  /\ nSleep = Retries
  /\ Retryable(last.status)

\* s is the beginning of t
IsPrefix(s, t) == Len(s) <= Len(t) /\ SubSeq(t, 1, Len(s)) = s

\* C20: run cuts the output file before its first fetch: from then on the disk
\* holds rows of this run only (a beginning of what it has written), and after
\* run has ended, done or failed, exactly the rows this run has written, even
\* when that is none.
C20_OnlyThisRun ==
  /\ pc # "start" => IsPrefix(file.disk \o file.buf, Lines(emitted))
  /\ pc \in {"done", "failed"} => file.disk = Lines(emitted)

\* the first fetch has raised: the file, which held a row of an earlier run,
\* is empty
C20_Witness ==
  /\ pc = "failed"
  /\ nFetch = 1
  /\ emitted = <<>>
  /\ file.disk = <<>>

====
